---------------------------- MODULE Spec2Model ----------------------------
(***************************************************************************)
(* Verification model of five small components of the repository:          *)
(*                                                                         *)
(*   - nippy-jar's InclusionFilters dispatcher over the Cuckoo filter      *)
(*     (crates/storage/nippy-jar/src/filter/mod.rs),          SpecFilter   *)
(*   - EventListeners (crates/tokio-util/src/event_listeners.rs),          *)
(*                                                            SpecListeners*)
(*   - TransactionRequest::into_typed_request                              *)
(*     (crates/rpc/rpc-types/src/eth/transaction/request.rs), SpecTx       *)
(*   - JsonU256 deserialization                                            *)
(*     (crates/primitives/src/serde_helper/jsonu256.rs),      SpecJson     *)
(*   - ZeroAsNone parsing (bin/reth/src/args/types.rs),       SpecZero     *)
(*                                                                         *)
(* Each component has its own specification over its own variables; the    *)
(* variables of the other components stay at their idle values.            *)
(***************************************************************************)
EXTENDS Integers, Sequences, FiniteSets

VARIABLES
    filter,     \* the InclusionFilters value
    added,      \* elements for which add returned Ok(())            (history)
    fret,       \* the last filter call: [op, element, res]
    listeners,  \* EventListeners.listeners: the channel of each stored sender
    chan,       \* per channel: "none" (not created), "open", "closed" (receiver gone)
    queue,      \* per channel: the events enqueued so far, oldest first
    senders,    \* channels whose sender the caller created and still holds a clone of
    pc,         \* "idle", or "notify" while notify's retain loop runs
    cur,        \* notify: the event, the index reached, the listeners kept, the send results
    notified,   \* number of notify calls started
    lret,       \* the last EventListeners call that returned
    req,        \* the TransactionRequest
    typed,      \* the result of into_typed_request, once it was called
    json,       \* the JSON value handed to JsonU256's deserializer
    jout,       \* the result of the deserialization, once it ran
    arg,        \* the CLI string handed to ZeroAsNone::from_str
    zout        \* the result of the parse (and of unwrap_or_max), once it ran

filterVars == <<filter, added, fret>>
listenerVars == <<listeners, chan, queue, senders, pc, cur, notified, lret>>
txVars == <<req, typed>>
jsonVars == <<json, jout>>
zeroVars == <<arg, zout>>
vars == <<filterVars, listenerVars, txVars, jsonVars, zeroVars>>

\* Option<T>: None is the empty sequence, Some(x) the sequence of x alone.
None == <<>>
Some(x) == <<x>>
IsNone(o) == Len(o) = 0
IsSome(o) == Len(o) = 1
unwrap_or(o, d) == IF IsSome(o) THEN o[1] ELSE d

Range(s) == {s[k] : k \in 1..Len(s)}

-----------------------------------------------------------------------------
(* Idle values of each component's variables.                              *)

FilterIdle ==
    /\ filter = [kind |-> "Unused"]
    /\ added = {}
    /\ fret = [op |-> "none"]

ListenersIdle ==
    /\ listeners = <<>>
    /\ chan = <<>>
    /\ queue = <<>>
    /\ senders = {}
    /\ pc = "idle"
    /\ cur = None
    /\ notified = 0
    /\ lret = [op |-> "none"]

Pending == [done |-> FALSE]
Done(r) == [done |-> TRUE, res |-> r]

TxIdle ==
    /\ req = None
    /\ typed = Pending

JsonIdle ==
    /\ json = None
    /\ jout = Pending

ZeroIdle ==
    /\ arg = None
    /\ zout = Pending

-----------------------------------------------------------------------------
(***************************************************************************)
(* The inclusion filter.                                                   *)
(*                                                                         *)
(* filter/cuckoo.rs is not among the sources; Cuckoo is modelled from the  *)
(* insertion algorithm of the specification, section 4.1: buckets of       *)
(* fingerprint slots, two candidate buckets per element, eviction at       *)
(* random and relocation to the evicted fingerprint's alternate bucket, at *)
(* most MaxKicks times, then a capacity error.                             *)
(***************************************************************************)

MaxElem == 6        \* elements are 0 .. MaxElem-1
NumBuckets == 2
BucketSize == 2
MaxKicks == 2

Elements == 0..(MaxElem - 1)
Buckets == 0..(NumBuckets - 1)
Slots == 1..BucketSize
Empty == 0

\* The two hashes of an element: its fingerprint (never Empty) and its first bucket.
Fingerprint(e) == (e \div NumBuckets) + 1
Index1(e) == e % NumBuckets
\* The alternate bucket of a fingerprint stored in bucket i: i XOR hash(fp), on the
\* one index bit of a two-bucket table, so that AltIndex(AltIndex(i, fp), fp) = i.
AltIndex(i, fp) == IF fp % 2 = 1 THEN (NumBuckets - 1) - i ELSE i
Index2(e) == AltIndex(Index1(e), Fingerprint(e))

EmptyBuckets == [b \in Buckets |-> [s \in Slots |-> Empty]]
NewCuckoo == [kind |-> "Cuckoo", buckets |-> EmptyBuckets]
Unused == [kind |-> "Unused"]

HasFree(bk, i) == \E s \in Slots : bk[i][s] = Empty
FirstFree(bk, i) == CHOOSE s \in Slots : bk[i][s] = Empty /\ \A t \in Slots : t < s => bk[i][t] # Empty
Put(bk, i, fp) == [bk EXCEPT ![i][FirstFree(bk, i)] = fp]

\* The outcomes of relocating: fp is in hand and is to go into bucket i, which is full;
\* k kicks are left.  Each outcome is the table and whether the insertion completed.
RECURSIVE Kick(_, _, _, _)
Kick(bk, fp, i, k) ==
    IF k = 0
    THEN {[buckets |-> bk, ok |-> FALSE]}      \* the fingerprint in hand is given up
    ELSE UNION {
        LET victim == bk[i][s]
            placed == [bk EXCEPT ![i][s] = fp]
            alt == AltIndex(i, victim)
        IN  IF HasFree(placed, alt)
            THEN {[buckets |-> Put(placed, alt, victim), ok |-> TRUE]}
            ELSE Kick(placed, victim, alt, k - 1)
        : s \in Slots }

\* Cuckoo::add: the set of possible [self, res] after the call.
Cuckoo_add(self, element) ==
    LET fp == Fingerprint(element)
        i1 == Index1(element)
        i2 == Index2(element)
        bk == self.buckets
    IN  IF HasFree(bk, i1)
        THEN {[self |-> [self EXCEPT !.buckets = Put(bk, i1, fp)], res |-> "Ok(())"]}
        ELSE IF HasFree(bk, i2)
        THEN {[self |-> [self EXCEPT !.buckets = Put(bk, i2, fp)], res |-> "Ok(())"]}
        ELSE {[self |-> [self EXCEPT !.buckets = o.buckets],
               res |-> IF o.ok THEN "Ok(())" ELSE "Err(FilterMaxCapacity)"]
              : o \in UNION {Kick(bk, fp, i, MaxKicks) : i \in {i1, i2}}}

\* Cuckoo::contains: the fingerprint is in either candidate bucket.
Cuckoo_contains(self, element) ==
    LET fp == Fingerprint(element)
    IN  IF \E i \in {Index1(element), Index2(element)} : \E s \in Slots : self.buckets[i][s] = fp
        THEN "Ok(true)"
        ELSE "Ok(false)"

\* A dispatcher that treats the disabled variant as an empty, accepting filter.
InclusionFilters_add_lenient(self, element) ==
    IF self.kind = "Cuckoo"
    THEN Cuckoo_add(self, element)
    ELSE {[self |-> self, res |-> "Ok(())"]}

\* <InclusionFilters as InclusionFilter>::add: the possible [self, res] after the call.
InclusionFilters_add(self, element) ==
    IF self.kind = "Cuckoo"
    THEN Cuckoo_add(self, element)
    ELSE {[self |-> self, res |-> "Err(UnsupportedFilterQuery)"]}

\* <InclusionFilters as InclusionFilter>::contains (&self: the filter is not changed).
InclusionFilters_contains(self, element) ==
    IF self.kind = "Cuckoo"
    THEN Cuckoo_contains(self, element)
    ELSE "Err(UnsupportedFilterQuery)"

FilterInit ==
    /\ filter \in {NewCuckoo, Unused}
    /\ added = {}
    /\ fret = [op |-> "none"]
    /\ ListenersIdle /\ TxIdle /\ JsonIdle /\ ZeroIdle

Add(element) ==
    /\ \E o \in InclusionFilters_add(filter, element) :
        /\ filter' = o.self
        /\ fret' = [op |-> "add", element |-> element, res |-> o.res]
        /\ added' = IF o.res = "Ok(())" THEN added \cup {element} ELSE added
    /\ UNCHANGED <<listenerVars, txVars, jsonVars, zeroVars>>

Contains(element) ==
    /\ fret' = [op |-> "contains", element |-> element,
                res |-> InclusionFilters_contains(filter, element)]
    /\ UNCHANGED <<filter, added>>
    /\ UNCHANGED <<listenerVars, txVars, jsonVars, zeroVars>>

FilterNext ==
    \/ \E e \in Elements : Add(e)
    \/ \E e \in Elements : Contains(e)

SpecFilter == FilterInit /\ [][FilterNext]_vars

\* C1: on the disabled variant InclusionFilters::Unused every add and every contains
\* returns Err(UnsupportedFilterQuery), and the filter is still Unused afterwards.
UnusedIsUnsupported ==
    [][filter = Unused =>
        /\ filter' = Unused
        /\ fret'.op \in {"add", "contains"}
        /\ fret'.res = "Err(UnsupportedFilterQuery)"]_vars

\* add was called on an Unused filter and was refused; nothing was added.
UnusedWitness ==
    /\ filter = Unused
    /\ fret.op = "add"
    /\ fret.res = "Err(UnsupportedFilterQuery)"
    /\ added = {}

-----------------------------------------------------------------------------
(***************************************************************************)
(* EventListeners.                                                         *)
(*                                                                         *)
(* A listener is an mpsc::UnboundedSender; the model keeps the channel     *)
(* each stored sender belongs to.  A send fails exactly when the channel's *)
(* receiver is gone.  Receivers live in other tasks, so a receiver may be  *)
(* dropped between two sends of one notify: notify is modelled send by     *)
(* send.  The other methods take &mut self and run when no notify does.    *)
(***************************************************************************)

MaxChans == 2
MaxListeners == 2
MaxNotify == 2

Chans == 1..MaxChans
Events == {"a", "b"}

\* Where a sender object lives.  The elements of self.listeners live in the Vec's
\* buffer; a sender the caller can pass by reference to a method taking &mut self
\* is another object, outside that buffer.
SlotAddr(k) == [at |-> "vec", slot |-> k]
CallerAddr(c) == [at |-> "caller", sender |-> c]

\* UnboundedSender::send: an error exactly when the receiver was closed or dropped.
send(status) == IF status = "open" THEN "Ok" ELSE "Err"

\* A retain predicate that keeps every listener.
retain_all(sent) == TRUE

\* notify's retain predicate: listener.send(event.clone()).is_ok()
retain_pred(sent) == sent = "Ok"

\* self.listeners.iter().position(|l| l as *const _ == listener_ptr): the first index
\* whose element lives at listener_ptr, or None.
position(ls, listener_ptr) ==
    IF \E k \in 1..Len(ls) : SlotAddr(k) = listener_ptr
    THEN Some(CHOOSE k \in 1..Len(ls) : SlotAddr(k) = listener_ptr
                                        /\ \A j \in 1..(k - 1) : SlotAddr(j) # listener_ptr)
    ELSE None

\* Vec::remove(pos)
remove(ls, pos) == [k \in 1..(Len(ls) - 1) |-> IF k < pos THEN ls[k] ELSE ls[k + 1]]

ListenersInit ==
    /\ listeners = <<>>                     \* Default: Vec::new()
    /\ chan = [c \in Chans |-> "none"]
    /\ queue = [c \in Chans |-> <<>>]
    /\ senders = {}
    /\ pc = "idle"
    /\ cur = None
    /\ notified = 0
    /\ lret = [op |-> "none"]
    /\ FilterIdle /\ TxIdle /\ JsonIdle /\ ZeroIdle

Others == <<filterVars, txVars, jsonVars, zeroVars>>

\* Channels are numbered in the order of their creation.
Fresh(c) == chan[c] = "none" /\ \A d \in Chans : d < c => chan[d] # "none"

\* The caller creates a channel with mpsc::unbounded_channel() and holds its sender.
UnboundedChannel(c) ==
    /\ pc = "idle"
    /\ Fresh(c)
    /\ chan' = [chan EXCEPT ![c] = "open"]
    /\ senders' = senders \cup {c}
    /\ UNCHANGED <<listeners, queue, pc, cur, notified, lret, Others>>

\* new_listener: a fresh channel, whose sender is pushed and whose receiver is returned.
NewListener(c) ==
    /\ pc = "idle"
    /\ Len(listeners) < MaxListeners
    /\ Fresh(c)
    /\ chan' = [chan EXCEPT ![c] = "open"]
    /\ listeners' = Append(listeners, c)
    /\ lret' = [op |-> "new_listener", chan |-> c]
    /\ UNCHANGED <<queue, senders, pc, cur, notified, Others>>

\* push_listener(sender): the caller hands over a sender of channel c (and keeps a clone).
PushListener(c) ==
    /\ pc = "idle"
    /\ Len(listeners) < MaxListeners
    /\ c \in senders
    /\ listeners' = Append(listeners, c)
    /\ lret' = [op |-> "push_listener", chan |-> c]
    /\ UNCHANGED <<chan, queue, senders, pc, cur, notified, Others>>

\* remove_listener(&sender), with the caller's sender of channel c.
RemoveListener(c) ==
    /\ pc = "idle"
    /\ c \in senders
    /\ LET pos == position(listeners, CallerAddr(c))
       IN  /\ listeners' = IF IsSome(pos) THEN remove(listeners, pos[1]) ELSE listeners
           /\ lret' = [op |-> "remove_listener", chan |-> c, pre |-> listeners,
                       res |-> IsSome(pos)]
    /\ UNCHANGED <<chan, queue, senders, pc, cur, notified, Others>>

\* The receiver of channel c is dropped (or closed) by the task that owns it.
DropReceiver(c) ==
    /\ chan[c] = "open"
    /\ chan' = [chan EXCEPT ![c] = "closed"]
    /\ UNCHANGED <<listeners, queue, senders, pc, cur, notified, lret, Others>>

\* notify(event) is called: retain starts at the first listener.
NotifyCall(event) ==
    /\ pc = "idle"
    /\ notified < MaxNotify
    /\ pc' = "notify"
    /\ notified' = notified + 1
    /\ cur' = [event |-> event, i |-> 1, kept |-> <<>>, open |-> <<>>, queue0 |-> queue]
    /\ UNCHANGED <<listeners, chan, queue, senders, lret, Others>>

\* retain visits the next listener: the event is sent, and the listener is kept if the
\* predicate says so.  cur.open records whether the receiver was open at this send.
NotifySend ==
    /\ pc = "notify"
    /\ cur.i <= Len(listeners)
    /\ LET c == listeners[cur.i]
           sent == send(chan[c])
       IN  /\ queue' = IF sent = "Ok" THEN [queue EXCEPT ![c] = Append(@, cur.event)] ELSE queue
           /\ cur' = [cur EXCEPT !.i = @ + 1,
                                 !.kept = IF retain_pred(sent) THEN Append(@, c) ELSE @,
                                 !.open = Append(@, chan[c] = "open")]
    /\ UNCHANGED <<listeners, chan, senders, pc, notified, lret, Others>>

\* retain is done and notify returns.
NotifyReturn ==
    /\ pc = "notify"
    /\ cur.i > Len(listeners)
    /\ listeners' = cur.kept
    /\ pc' = "idle"
    /\ cur' = None
    /\ lret' = [op |-> "notify", event |-> cur.event, pre |-> listeners,
                open |-> cur.open, queue0 |-> cur.queue0]
    /\ UNCHANGED <<chan, queue, senders, notified, Others>>

ListenersNext ==
    \/ \E c \in Chans : UnboundedChannel(c)
    \/ \E c \in Chans : NewListener(c)
    \/ \E c \in Chans : PushListener(c)
    \/ \E c \in Chans : RemoveListener(c)
    \/ \E c \in Chans : DropReceiver(c)
    \/ \E ev \in Events : NotifyCall(ev)
    \/ NotifySend
    \/ NotifyReturn

SpecListeners == ListenersInit /\ [][ListenersNext]_vars

\* The listeners of pre, in order, whose entry in open is TRUE.
RECURSIVE OpenOnes(_, _)
OpenOnes(pre, open) ==
    IF pre = <<>> THEN <<>>
    ELSE IF Head(open) THEN <<Head(pre)>> \o OpenOnes(Tail(pre), Tail(open))
    ELSE OpenOnes(Tail(pre), Tail(open))

Copies(event, n) == [k \in 1..n |-> event]

\* C3: when notify(event) has returned, the listener list holds exactly the listeners
\* registered before the call whose receiver was open at send time, in their original
\* order, and each of them has had exactly one copy of the event enqueued (a channel
\* gets one copy per kept listener of it, and nothing else).
NotifySendsAndPrunes ==
    (lret.op = "notify" /\ pc = "idle") =>
        /\ Len(lret.open) = Len(lret.pre)
        /\ listeners = OpenOnes(lret.pre, lret.open)
        /\ \A c \in Chans :
            queue[c] = lret.queue0[c] \o
                Copies(lret.event, Cardinality({k \in 1..Len(lret.pre) : lret.pre[k] = c /\ lret.open[k]}))

\* A notify over at least two listeners that kept one and removed another.
NotifyWitness ==
    /\ lret.op = "notify"
    /\ pc = "idle"
    /\ Len(lret.pre) >= 2
    /\ Len(listeners) >= 1
    /\ Len(listeners) < Len(lret.pre)
    /\ \E c \in Chans : Len(queue[c]) >= 1

\* C5: remove_listener(l) returns true and removes exactly one listener when l is
\* registered, and returns false and changes nothing when it is not.
RemoveListenerRemoves ==
    lret.op = "remove_listener" =>
        IF lret.chan \in Range(lret.pre)
        THEN /\ lret.res = TRUE
             /\ Len(listeners) = Len(lret.pre) - 1
             /\ \E k \in 1..Len(lret.pre) : lret.pre[k] = lret.chan /\ listeners = remove(lret.pre, k)
        ELSE /\ lret.res = FALSE
             /\ listeners = lret.pre

-----------------------------------------------------------------------------
(***************************************************************************)
(* TransactionRequest::into_typed_request.                                 *)
(***************************************************************************)

MaxVal == 1     \* numeric fields range over 0 .. MaxVal

Nums == 0..MaxVal
Opt(S) == {None} \cup {Some(x) : x \in S}
Addresses == {"addr"}
ByteStrings == {<<171>>}
AccessLists == {<<>>, <<"item">>}

\* struct TransactionRequest
TransactionRequest ==
    [from : Opt(Addresses), to : Opt(Addresses), gas_price : Opt(Nums),
     max_fee_per_gas : Opt(Nums), max_priority_fee_per_gas : Opt(Nums),
     gas : Opt(Nums), value : Opt(Nums), data : Opt(ByteStrings),
     nonce : Opt(Nums), access_list : Opt(AccessLists),
     transaction_type : Opt(Nums)]

\* match to { Some(to) => TransactionKind::Call(to), None => TransactionKind::Create }
kind_of(to) == IF IsSome(to) THEN <<"Call", to[1]>> ELSE <<"Create">>

\* The result of into_typed_request(self): None, Some(typed request), or the panic of
\* the todo!() fields of the EIP4844 arm.
into_typed_request(self) ==
    LET gas_price == self.gas_price
        max_fee_per_gas == self.max_fee_per_gas
        access_list == self.access_list
    IN  IF IsSome(gas_price) /\ IsNone(max_fee_per_gas) /\ IsNone(access_list)
        THEN Some([type |-> "Legacy",
                   nonce |-> unwrap_or(self.nonce, 0),
                   gas_price |-> unwrap_or(gas_price, 0),
                   gas_limit |-> unwrap_or(self.gas, 0),
                   value |-> unwrap_or(self.value, 0),
                   input |-> unwrap_or(self.data, <<>>),
                   kind |-> kind_of(self.to),
                   chain_id |-> None])
        ELSE IF IsNone(max_fee_per_gas) /\ IsSome(access_list)
        THEN Some([type |-> "EIP2930",
                   nonce |-> unwrap_or(self.nonce, 0),
                   gas_price |-> unwrap_or(gas_price, 0),
                   gas_limit |-> unwrap_or(self.gas, 0),
                   value |-> unwrap_or(self.value, 0),
                   input |-> unwrap_or(self.data, <<>>),
                   kind |-> kind_of(self.to),
                   chain_id |-> 0,
                   access_list |-> access_list[1]])
        ELSE IF \/ IsNone(gas_price) /\ IsSome(max_fee_per_gas)
                \/ IsNone(gas_price) /\ IsNone(max_fee_per_gas) /\ IsNone(access_list)
        THEN Some([type |-> "EIP1559",
                   nonce |-> unwrap_or(self.nonce, 0),
                   max_fee_per_gas |-> unwrap_or(max_fee_per_gas, 0),
                   max_priority_fee_per_gas |-> unwrap_or(self.max_priority_fee_per_gas, 0),
                   gas_limit |-> unwrap_or(self.gas, 0),
                   value |-> unwrap_or(self.value, 0),
                   input |-> unwrap_or(self.data, <<>>),
                   kind |-> kind_of(self.to),
                   chain_id |-> 0,
                   access_list |-> unwrap_or(access_list, <<>>)])
        ELSE IF \/ IsNone(gas_price) /\ IsSome(max_fee_per_gas)
                \/ IsNone(gas_price) /\ IsNone(max_fee_per_gas) /\ IsNone(access_list)
        THEN Some([type |-> "panic: not yet implemented"])      \* EIP4844, never reached
        ELSE None

TxInit ==
    /\ req \in TransactionRequest
    /\ typed = Pending
    /\ FilterIdle /\ ListenersIdle /\ JsonIdle /\ ZeroIdle

IntoTypedRequest ==
    /\ ~typed.done
    /\ typed' = Done(into_typed_request(req))
    /\ UNCHANGED <<req, filterVars, listenerVars, jsonVars, zeroVars>>

TxNext == IntoTypedRequest

SpecTx == TxInit /\ [][TxNext]_vars

\* C4: into_typed_request returns None if gas_price and max_fee_per_gas are either both
\* missing or both set, whatever the other fields are.
NoneIfBothMissingOrBothSet ==
    (/\ typed.done
     /\ \/ IsNone(req.gas_price) /\ IsNone(req.max_fee_per_gas)
        \/ IsSome(req.gas_price) /\ IsSome(req.max_fee_per_gas))
    => IsNone(typed.res)

-----------------------------------------------------------------------------
(***************************************************************************)
(* JsonU256 deserialization.  A string is the sequence of its characters.  *)
(***************************************************************************)

MaxStrLen == 4      \* JSON strings of at most this many characters
MaxNum == 3         \* JSON unsigned integers 0 .. MaxNum

JsonAlphabet == {"0", "1", "9", "a", "x", "z"}
Strings(alphabet, n) == UNION {[1..k -> alphabet] : k \in 0..n}
JsonValues ==
    {[tag |-> "u64", n |-> n] : n \in 0..MaxNum}
    \cup {[tag |-> "str", s |-> s] : s \in Strings(JsonAlphabet, MaxStrLen)}

Ok(v) == [ok |-> TRUE, val |-> v]
Err(e) == [ok |-> FALSE, err |-> e]

starts_with(s, prefix) == Len(s) >= Len(prefix) /\ SubSeq(s, 1, Len(prefix)) = prefix

\* The digits of a radix up to 36: '0'..'9' then 'a'..'z'.
Digits36 == <<"0", "1", "2", "3", "4", "5", "6", "7", "8", "9", "a", "b", "c", "d", "e", "f", "g", "h", "i", "j", "k", "l", "m", "n", "o", "p", "q", "r", "s", "t", "u", "v", "w", "x", "y", "z">>
\* The value of a character as a digit, or -1 when it is none.
digit(c) ==
    IF \E k \in 1..Len(Digits36) : Digits36[k] = c
    THEN (CHOOSE k \in 1..Len(Digits36) : Digits36[k] = c) - 1
    ELSE -1

\* U256::from_str_radix(src, radix): the digits are folded from the left; a character
\* that is no digit of the radix is an error.
RECURSIVE fold_digits(_, _, _)
fold_digits(src, radix, acc) ==
    IF src = <<>> THEN Ok(acc)
    ELSE LET d == digit(Head(src))
         IN  IF d < 0 \/ d >= radix
             THEN Err("InvalidDigit")
             ELSE fold_digits(Tail(src), radix, acc * radix + d)

from_str_radix(src, radix) == fold_digits(src, radix, 0)

\* U256::from_str(src): the radix is chosen by the prefix, base 10 without one.
from_str(src) ==
    IF Len(src) >= 2
    THEN LET prefix == SubSeq(src, 1, 2)
             rest == SubSeq(src, 3, Len(src))
         IN  IF prefix \in {<<"0", "x">>, <<"0", "X">>} THEN from_str_radix(rest, 16)
             ELSE IF prefix \in {<<"0", "o">>, <<"0", "O">>} THEN from_str_radix(rest, 8)
             ELSE IF prefix \in {<<"0", "b">>, <<"0", "B">>} THEN from_str_radix(rest, 2)
             ELSE from_str_radix(src, 10)
    ELSE from_str_radix(src, 10)

\* JsonU256Visitor::visit_u64
visit_u64(value) == Ok(value)

\* A visit_str whose hex arm hands the whole string, prefix included, to the radix parser.
visit_str_prefix_kept(value) ==
    IF Len(value) = 0 THEN Ok(0)
    ELSE IF Len(value) = 2 /\ starts_with(value, <<"0", "x">>) THEN Ok(0)
    ELSE IF starts_with(value, <<"0", "x">>)
    THEN LET r == from_str_radix(value, 16)
         IN  IF r.ok THEN r ELSE Err("Parsing JsonU256 as hex failed")
    ELSE LET r == from_str_radix(value, 10)
         IN  IF r.ok THEN r ELSE Err("Parsing JsonU256 as decimal failed")

\* JsonU256Visitor::visit_str
visit_str(value) ==
    IF Len(value) = 0 THEN Ok(0)
    ELSE IF Len(value) = 2 /\ starts_with(value, <<"0", "x">>) THEN Ok(0)
    ELSE IF starts_with(value, <<"0", "x">>)
    THEN LET r == from_str(value)
         IN  IF r.ok THEN r ELSE Err("Parsing JsonU256 as hex failed")
    ELSE LET r == from_str_radix(value, 10)
         IN  IF r.ok THEN r ELSE Err("Parsing JsonU256 as decimal failed")

\* <JsonU256 as Deserialize>::deserialize: deserialize_any hands the value to the visitor.
deserialize(v) == IF v.tag = "u64" THEN visit_u64(v.n) ELSE visit_str(v.s)

JsonInit ==
    /\ json \in JsonValues
    /\ jout = Pending
    /\ FilterIdle /\ ListenersIdle /\ TxIdle /\ ZeroIdle

Deserialize ==
    /\ ~jout.done
    /\ jout' = Done(deserialize(json))
    /\ UNCHANGED <<json, filterVars, listenerVars, txVars, zeroVars>>

JsonNext == Deserialize

SpecJson == JsonInit /\ [][JsonNext]_vars

\* What the claim expects: the value of a numeral by the place of each digit.
HexDigits == <<"0", "1", "2", "3", "4", "5", "6", "7", "8", "9", "a", "b", "c", "d", "e", "f">>
DecDigits == <<"0", "1", "2", "3", "4", "5", "6", "7", "8", "9">>
IndexIn(table, c) == CHOOSE k \in 1..Len(table) : table[k] = c
RECURSIVE Power(_, _)
Power(b, n) == IF n = 0 THEN 1 ELSE b * Power(b, n - 1)
RECURSIVE PlaceSum(_, _, _)
PlaceSum(s, table, k) ==
    IF k > Len(s) THEN 0
    ELSE (IndexIn(table, s[k]) - 1) * Power(Len(table), Len(s) - k) + PlaceSum(s, table, k + 1)
Numeral(s, table) ==
    IF \A k \in 1..Len(s) : \E j \in 1..Len(table) : table[j] = s[k]
    THEN [ok |-> TRUE, val |-> PlaceSum(s, table, 1)]
    ELSE [ok |-> FALSE]

JsonExpected(v) ==
    IF v.tag = "u64" THEN [ok |-> TRUE, val |-> v.n]
    ELSE IF v.s = <<>> \/ v.s = <<"0", "x">> THEN [ok |-> TRUE, val |-> 0]
    ELSE IF Len(v.s) > 2 /\ v.s[1] = "0" /\ v.s[2] = "x"
    THEN Numeral(SubSeq(v.s, 3, Len(v.s)), HexDigits)
    ELSE Numeral(v.s, DecDigits)

\* C6: a JSON unsigned integer n yields n; "" and "0x" yield zero; any other string
\* starting with "0x" is read as hexadecimal and every other string as base 10; a
\* string that is no numeral of its base yields an error, not a value.
JsonU256HexOrDecimal ==
    jout.done =>
        LET want == JsonExpected(json)
        IN  /\ jout.res.ok = want.ok
            /\ want.ok => jout.res.val = want.val

\* "0x10" was deserialized to 16.
JsonWitness ==
    /\ jout.done
    /\ json = [tag |-> "str", s |-> <<"0", "x", "1", "0">>]
    /\ jout.res = Ok(16)

-----------------------------------------------------------------------------
(***************************************************************************)
(* ZeroAsNone.  A u64 is the sequence of its decimal digits, most          *)
(* significant first, without leading zeros (zero is <<0>>): u64::MAX does *)
(* not fit the model checker's integers.                                   *)
(***************************************************************************)

MaxArgLen == 3      \* every argument of at most this many characters is tried

ZeroAlphabet == {"0", "1", "9", "+", "-", "a"}
\* Longer arguments, around u64::MAX.
LongArgs == {
    <<"1", "8", "4", "4", "6", "7", "4", "4", "0", "7", "3", "7", "0", "9", "5", "5", "1", "6", "1", "5">>,
    <<"1", "8", "4", "4", "6", "7", "4", "4", "0", "7", "3", "7", "0", "9", "5", "5", "1", "6", "1", "6">>,
    <<"+", "0", "1", "8", "4", "4", "6", "7", "4", "4", "0", "7", "3", "7", "0", "9", "5", "5", "1", "6", "1", "5">>,
    <<"1", "8", "4", "4", "6", "7", "4", "4", "0", "7", "3", "7", "0", "9", "5", "5", "1", "6", "0", "9">>,
    <<"9", "9", "9", "9", "9", "9", "9", "9", "9", "9", "9", "9", "9", "9", "9", "9", "9", "9", "9", "9", "a">>,
    <<"0", "0", "0", "0", "0", "0", "0", "0", "0", "0", "0", "0", "0", "0", "0", "0", "0", "0", "0", "0", "0", "0", "0">> }
Args == Strings(ZeroAlphabet, MaxArgLen) \cup LongArgs

U64_MAX == <<1, 8, 4, 4, 6, 7, 4, 4, 0, 7, 3, 7, 0, 9, 5, 5, 1, 6, 1, 5>>
Zero == <<0>>

RECURSIVE Normalize(_)
Normalize(ds) ==
    IF Len(ds) > 1 /\ Head(ds) = 0 THEN Normalize(Tail(ds)) ELSE ds

RECURSIVE LexLe(_, _)
LexLe(a, b) ==
    IF a = <<>> THEN TRUE
    ELSE IF Head(a) # Head(b) THEN Head(a) < Head(b)
    ELSE LexLe(Tail(a), Tail(b))
\* a <= b, for numbers without leading zeros
Le(a, b) == Len(a) < Len(b) \/ (Len(a) = Len(b) /\ LexLe(a, b))

\* char::to_digit(10)
to_digit(c) ==
    IF \E k \in 1..10 : Digits36[k] = c
    THEN (CHOOSE k \in 1..10 : Digits36[k] = c) - 1
    ELSE -1

\* The digit loop of u64's from_str_radix: result = result * 10 + x, checked.
RECURSIVE parse_digits(_, _)
parse_digits(digits, result) ==
    IF digits = <<>> THEN Ok(result)
    ELSE LET x == to_digit(Head(digits))
         IN  IF x < 0 THEN Err("InvalidDigit")
             ELSE LET next == Normalize(result \o <<x>>)
                  IN  IF ~Le(next, U64_MAX) THEN Err("PosOverflow")
                      ELSE parse_digits(Tail(digits), next)

\* str::parse::<u64>()
parse_u64(src) ==
    IF src = <<>> THEN Err("Empty")
    ELSE IF Head(src) \in {"+", "-"} /\ Len(src) = 1 THEN Err("InvalidDigit")
    ELSE IF Head(src) = "+" THEN parse_digits(Tail(src), Zero)
    ELSE parse_digits(src, Zero)

\* A from_str that wraps every parsed value in Some.
from_str_keeps_zero(s) ==
    LET value == parse_u64(s)
    IN  IF value.ok THEN Ok(Some(value.val)) ELSE value

\* <ZeroAsNone as FromStr>::from_str
ZeroAsNone_from_str(s) ==
    LET value == parse_u64(s)
    IN  IF ~value.ok THEN value
        ELSE Ok(IF value.val = Zero THEN None ELSE Some(value.val))

\* ZeroAsNone::unwrap_or_max
unwrap_or_max(self) == unwrap_or(self, U64_MAX)

ZeroInit ==
    /\ arg \in Args
    /\ zout = Pending
    /\ FilterIdle /\ ListenersIdle /\ TxIdle /\ JsonIdle

\* s.parse::<ZeroAsNone>(), then unwrap_or_max on the parsed value.
ParseArg ==
    /\ ~zout.done
    /\ LET r == ZeroAsNone_from_str(arg)
       IN  zout' = Done(IF r.ok THEN [ok |-> TRUE, parsed |-> r.val, max |-> unwrap_or_max(r.val)]
                        ELSE [ok |-> FALSE, err |-> r.err])
    /\ UNCHANGED <<arg, filterVars, listenerVars, txVars, jsonVars>>

ZeroNext == ParseArg

SpecZero == ZeroInit /\ [][ZeroNext]_vars

\* What the claim expects: a valid u64 is an optional '+', then one or more decimal
\* digits whose value is at most u64::MAX.
Unsigned(s) == IF s # <<>> /\ Head(s) = "+" THEN Tail(s) ELSE s
AllDecimal(s) == \A k \in 1..Len(s) : \E j \in 1..Len(DecDigits) : DecDigits[j] = s[k]
DigitsOf(s) == [k \in 1..Len(s) |-> IndexIn(DecDigits, s[k]) - 1]
ValidU64(s) ==
    /\ Unsigned(s) # <<>>
    /\ AllDecimal(Unsigned(s))
    /\ Le(Normalize(DigitsOf(Unsigned(s))), U64_MAX)

\* C7: for a string that parses as the u64 n, from_str is ZeroAsNone(None) when n = 0 and
\* ZeroAsNone(Some(n)) when n > 0, and unwrap_or_max is u64::MAX for the zero and n
\* otherwise; a string that is no valid u64 yields a ParseIntError.
ZeroParsesAsNone ==
    zout.done =>
        IF ValidU64(arg)
        THEN LET n == Normalize(DigitsOf(Unsigned(arg)))
             IN  /\ zout.res.ok
                 /\ zout.res.parsed = (IF \A k \in 1..Len(n) : n[k] = 0 THEN None ELSE Some(n))
                 /\ zout.res.max = (IF \A k \in 1..Len(n) : n[k] = 0 THEN U64_MAX ELSE n)
        ELSE /\ ~zout.res.ok
             /\ zout.res.err \in {"Empty", "InvalidDigit", "PosOverflow"}

\* "0" was parsed to None, and unwrap_or_max gave u64::MAX.
ZeroWitness ==
    /\ zout.done
    /\ arg = <<"0">>
    /\ zout.res.ok
    /\ zout.res.parsed = None
    /\ zout.res.max = U64_MAX

=============================================================================
